---- MODULE Spec2Model ----
(***************************************************************************)
(* Model of app/src/color_legend_gradient.js: color_gradient(ctx) run      *)
(* against a recording drawing context.  Every statement of the function   *)
(* is one step; every context operation either succeeds or raises.         *)
(***************************************************************************)
EXTENDS Integers, Sequences, FiniteSets, TLC

\* ---- bounds and input sets ----
MaxCalls == 2
Ctxs == {"c1", "c2"}
Colors == {"blue"}
Excs == {"E1", "E2"}
DefaultStyle == <<"color", "#000000">>
NoCtx == "none"
Undefined == <<"undefined", 0>>

VARIABLES
  pc,        \* position in color_gradient: "idle" (caller runs) or the line about to execute
  ctx,       \* parameter ctx of the running call
  gradient,  \* local const gradient: id of the gradient object, 0 before line 2 completes
  fillStyle, \* ctx.fillStyle of every drawing context
  gradients, \* gradient objects created so far: [coords, stops]
  log,       \* operations the contexts and gradients have received, in order
  painted,   \* what every successful fillRect painted: rectangle, style and its stops
  calls      \* one record per call of color_gradient: argument, entry style, outcome

vars == <<pc, ctx, gradient, fillStyle, gradients, log, painted, calls>>

\* ---- literals of the source ----
GradientCoords_horizontal == <<0, 0, 180, 0>>
GradientCoords == <<0, 0, 0, 180>>

FirstStop == <<0, "red">>

SecondStop == <<1, "black">>

Rect_transposed == <<0, 5, 180, 15>>
Rect == <<5, 0, 15, 180>>

\* ---- control flow of the function body: straight line, no branch ----
Succ_fillFirst(l) ==
  CASE l = "L2" -> "L5"
    [] l = "L5" -> "L6"
    [] l = "L6" -> "L10"
    [] l = "L10" -> "L9"
    [] l = "L9" -> "L11"

Succ(l) ==
  CASE l = "L2" -> "L5"
    [] l = "L5" -> "L6"
    [] l = "L6" -> "L9"
    [] l = "L9" -> "L10"
    [] l = "L10" -> "L11"

cur == Len(calls)

Entry(op, g, args, e) ==
  [call |-> cur, op |-> op, ctx |-> ctx, grad |-> g, args |-> args, threw |-> e]

\* an exception raised by a context operation leaves the function: there is
\* no try/catch, so the caller receives it and the call has no return value
Raise_wrapped(e) ==
  /\ pc' = "idle"
  /\ calls' = [calls EXCEPT ![cur].kind = "throw", ![cur].exc = "Error"]
  /\ ctx' = NoCtx
  /\ gradient' = 0

Raise(e) ==
  /\ pc' = "idle"
  /\ calls' = [calls EXCEPT ![cur].kind = "throw", ![cur].exc = e]
  /\ ctx' = NoCtx
  /\ gradient' = 0

\* ---- the caller ----
Enter(c, ch) ==
  /\ pc = "idle"
  /\ cur < MaxCalls
  /\ calls' = Append(calls, [ctx |-> c, entry |-> fillStyle[c], chained |-> ch,
                             kind |-> "running", ret |-> Undefined, exc |-> ""])
  /\ pc' = "L2"
  /\ ctx' = c
  /\ gradient' = 0
  /\ UNCHANGED <<fillStyle, gradients, log, painted>>

Call(c) == Enter(c, FALSE)

\* color_gradient(color_gradient(ctx)): the argument is the previous return value
CallChained ==
  /\ cur > 0
  /\ calls[cur].kind = "return"
  /\ calls[cur].ret[1] = "context"
  /\ Enter(calls[cur].ret[2], TRUE)

SetFillStyle(c, col) ==
  /\ pc = "idle"
  /\ fillStyle[c] # <<"color", col>>
  /\ fillStyle' = [fillStyle EXCEPT ![c] = <<"color", col>>]
  /\ UNCHANGED <<pc, ctx, gradient, gradients, log, painted, calls>>

\* ---- the statements of color_gradient ----
\* const gradient = ctx.createLinearGradient(0, 0, 0, 180);
Line2_cached ==
  /\ pc = "L2"
  /\ \/ /\ Len(gradients) = 0
        /\ gradients' = Append(gradients, [coords |-> GradientCoords, stops |-> <<>>])
        /\ gradient' = 1
        /\ log' = Append(log, Entry("createLinearGradient", 1, GradientCoords, ""))
        /\ pc' = Succ(pc)
        /\ UNCHANGED <<ctx, fillStyle, painted, calls>>
     \/ /\ Len(gradients) > 0
        /\ gradient' = Len(gradients)
        /\ pc' = Succ(pc)
        /\ UNCHANGED <<ctx, fillStyle, gradients, log, painted, calls>>
     \/ /\ Len(gradients) = 0
        /\ \E e \in Excs :
             /\ log' = Append(log, Entry("createLinearGradient", 0, GradientCoords, e))
             /\ Raise(e)
        /\ UNCHANGED <<fillStyle, gradients, painted>>

Line2 ==
  /\ pc = "L2"
  /\ \/ /\ gradients' = Append(gradients, [coords |-> GradientCoords, stops |-> <<>>])
        /\ gradient' = Len(gradients) + 1
        /\ log' = Append(log, Entry("createLinearGradient", Len(gradients) + 1,
                                    GradientCoords, ""))
        /\ pc' = Succ(pc)
        /\ UNCHANGED <<ctx, fillStyle, painted, calls>>
     \/ \E e \in Excs :
          /\ log' = Append(log, Entry("createLinearGradient", 0, GradientCoords, e))
          /\ Raise(e)
          /\ UNCHANGED <<fillStyle, gradients, painted>>

\* gradient.addColorStop(offset, color) on the gradient held by the local
AddColorStop(stop) ==
  \/ /\ gradients' = [gradients EXCEPT ![gradient].stops = Append(@, stop)]
     /\ log' = Append(log, Entry("addColorStop", gradient, stop, ""))
     /\ pc' = Succ(pc)
     /\ UNCHANGED <<ctx, gradient, fillStyle, painted, calls>>
  \/ \E e \in Excs :
       /\ log' = Append(log, Entry("addColorStop", gradient, stop, e))
       /\ Raise(e)
       /\ UNCHANGED <<fillStyle, gradients, painted>>

\* gradient.addColorStop(0, "red");
Line5 ==
  /\ pc = "L5"
  /\ AddColorStop(FirstStop)

\* gradient.addColorStop(1, "black");
Line6_thenThird ==
  /\ pc = "L6"
  /\ \/ /\ gradients' = [gradients EXCEPT ![gradient].stops =
                            Append(Append(@, SecondStop), <<1, "white">>)]
        /\ log' = log \o <<Entry("addColorStop", gradient, SecondStop, ""),
                           Entry("addColorStop", gradient, <<1, "white">>, "")>>
        /\ pc' = Succ(pc)
        /\ UNCHANGED <<ctx, gradient, fillStyle, painted, calls>>
     \/ \E e \in Excs :
          /\ log' = Append(log, Entry("addColorStop", gradient, SecondStop, e))
          /\ Raise(e)
          /\ UNCHANGED <<fillStyle, gradients, painted>>

Line6 ==
  /\ pc = "L6"
  /\ AddColorStop(SecondStop)

\* ctx.fillStyle = gradient;
Line9_skipped ==
  /\ pc = "L9"
  /\ \/ /\ pc' = Succ(pc)
        /\ UNCHANGED <<ctx, gradient, fillStyle, gradients, log, painted, calls>>
     \/ \E e \in Excs :
          /\ log' = Append(log, Entry("fillStyle=", gradient, <<>>, e))
          /\ Raise(e)
          /\ UNCHANGED <<fillStyle, gradients, painted>>

Line9 ==
  /\ pc = "L9"
  /\ \/ /\ fillStyle' = [fillStyle EXCEPT ![ctx] = <<"gradient", gradient>>]
        /\ log' = Append(log, Entry("fillStyle=", gradient, <<>>, ""))
        /\ pc' = Succ(pc)
        /\ UNCHANGED <<ctx, gradient, gradients, painted, calls>>
     \/ \E e \in Excs :
          /\ log' = Append(log, Entry("fillStyle=", gradient, <<>>, e))
          /\ Raise(e)
          /\ UNCHANGED <<fillStyle, gradients, painted>>

\* the stops of the style a context paints with (a plain colour has none)
StopsOf(style) ==
  IF style[1] = "gradient" THEN gradients[style[2]].stops ELSE <<>>

\* ctx.fillRect(5, 0, 15, 180);
Line10 ==
  /\ pc = "L10"
  /\ \/ /\ log' = Append(log, Entry("fillRect", 0, Rect, ""))
        /\ painted' = Append(painted, [call |-> cur, ctx |-> ctx, rect |-> Rect,
                                       style |-> fillStyle[ctx],
                                       stops |-> StopsOf(fillStyle[ctx])])
        /\ pc' = Succ(pc)
        /\ UNCHANGED <<ctx, gradient, fillStyle, gradients, calls>>
     \/ \E e \in Excs :
          /\ log' = Append(log, Entry("fillRect", 0, Rect, e))
          /\ Raise(e)
          /\ UNCHANGED <<fillStyle, gradients, painted>>

\* return(ctx);
Line11_returnsGradient ==
  /\ pc = "L11"
  /\ calls' = [calls EXCEPT ![cur].kind = "return", ![cur].ret = <<"gradient", gradient>>]
  /\ pc' = "idle"
  /\ ctx' = NoCtx
  /\ gradient' = 0
  /\ UNCHANGED <<fillStyle, gradients, log, painted>>

Line11_restores ==
  /\ pc = "L11"
  /\ calls' = [calls EXCEPT ![cur].kind = "return", ![cur].ret = <<"context", ctx>>]
  /\ fillStyle' = [fillStyle EXCEPT ![ctx] = calls[cur].entry]
  /\ pc' = "idle"
  /\ ctx' = NoCtx
  /\ gradient' = 0
  /\ UNCHANGED <<gradients, log, painted>>

Line11 ==
  /\ pc = "L11"
  /\ calls' = [calls EXCEPT ![cur].kind = "return", ![cur].ret = <<"context", ctx>>]
  /\ pc' = "idle"
  /\ ctx' = NoCtx
  /\ gradient' = 0
  /\ UNCHANGED <<fillStyle, gradients, log, painted>>

Init ==
  /\ pc = "idle"
  /\ ctx = NoCtx
  /\ gradient = 0
  /\ fillStyle = [c \in Ctxs |-> DefaultStyle]
  /\ gradients = <<>>
  /\ log = <<>>
  /\ painted = <<>>
  /\ calls = <<>>

Next ==
  \/ \E c \in Ctxs : Call(c)
  \/ CallChained
  \/ \E c \in Ctxs, col \in Colors : SetFillStyle(c, col)
  \/ Line2
  \/ Line5
  \/ Line6
  \/ Line9
  \/ Line10
  \/ Line11

Spec == Init /\ [][Next]_vars

\* ---- vocabulary of the properties ----
Completed(k) == calls[k].kind = "return"

Threw(k) == calls[k].kind = "throw"

CallLog(k) == SelectSeq(log, LAMBDA e : e.call = k)

OpLog(k, op) == SelectSeq(log, LAMBDA e : e.call = k /\ e.op = op)

Creates == SelectSeq(log, LAMBDA e : e.op = "createLinearGradient")

PaintedBy(k) == SelectSeq(painted, LAMBDA p : p.call = k)

\* the five context operations of one call, in program order
IsStep(e, n) ==
  CASE n = 1 -> e.op = "createLinearGradient" /\ e.args = <<0, 0, 0, 180>>
    [] n = 2 -> e.op = "addColorStop" /\ e.args = <<0, "red">>
    [] n = 3 -> e.op = "addColorStop" /\ e.args = <<1, "black">>
    [] n = 4 -> e.op = "fillStyle="
    [] n = 5 -> e.op = "fillRect" /\ e.args = <<5, 0, 15, 180>>
    [] OTHER -> FALSE

SameOps(s, t) ==
  /\ Len(s) = Len(t)
  /\ \A i \in 1..Len(s) : s[i].op = t[i].op /\ s[i].args = t[i].args

\* C1: every fillRect is preceded, in the same call, by a successful
\* assignment to fillStyle of the gradient that call's createLinearGradient
\* returned; what fillRect paints with is that gradient and never the style
\* the context had when the call began; every completed call made the
\* assignment.
C1_FillStyleAssignedBeforeFillRect ==
  /\ \A i \in 1..Len(log) :
       log[i].op = "fillRect" =>
         \E j \in 1..(i - 1) :
           /\ log[j].call = log[i].call
           /\ log[j].op = "fillStyle="
           /\ log[j].threw = ""
           /\ \E c \in 1..(j - 1) :
                /\ log[c].call = log[i].call
                /\ log[c].op = "createLinearGradient"
                /\ log[c].threw = ""
                /\ log[c].grad = log[j].grad
  /\ \A i \in 1..Len(painted) :
       /\ painted[i].style # calls[painted[i].call].entry
       /\ Len(OpLog(painted[i].call, "createLinearGradient")) = 1
       /\ painted[i].style =
            <<"gradient", OpLog(painted[i].call, "createLinearGradient")[1].grad>>
  /\ \A k \in 1..Len(calls) :
       Completed(k) => Len(OpLog(k, "fillStyle=")) = 1

\* a call completed on a context whose fill style was already a gradient
C1_Witness ==
  \E k \in 1..Len(calls) :
    /\ Completed(k)
    /\ calls[k].entry[1] = "gradient"
    /\ Len(PaintedBy(k)) = 1

C3_CreateOnceWithCoords ==
  \A k \in 1..Len(calls) :
    Completed(k) =>
      LET cr == OpLog(k, "createLinearGradient")
      IN /\ Len(cr) = 1
         /\ cr[1].args = <<0, 0, 0, 180>>
         /\ cr[1].ctx = calls[k].ctx
         /\ gradients[cr[1].grad].coords = <<0, 0, 0, 180>>

C3_Witness ==
  \E k \in 1..Len(calls) :
    Completed(k) /\ calls[k].ctx = "c2" /\ Len(OpLog(k, "createLinearGradient")) = 1

\* C4: a completed call invoked fillRect exactly once with (5, 0, 15, 180),
\* and every fillRect of any call, whatever the context's style before the
\* call, has these arguments.
C4_FillRectOnceWithRect ==
  /\ \A k \in 1..Len(calls) :
       Completed(k) =>
         LET fr == OpLog(k, "fillRect")
         IN /\ Len(fr) = 1
            /\ fr[1].args = <<5, 0, 15, 180>>
            /\ fr[1].ctx = calls[k].ctx
  /\ \A i \in 1..Len(log) :
       log[i].op = "fillRect" => log[i].args = <<5, 0, 15, 180>>
  /\ \A i \in 1..Len(painted) : painted[i].rect = <<5, 0, 15, 180>>

\* two completed calls that began with different kinds of fill style
C4_Witness ==
  \E k1, k2 \in 1..Len(calls) :
    /\ Completed(k1) /\ Completed(k2)
    /\ calls[k1].entry = <<"color", "blue">>
    /\ calls[k2].entry[1] = "gradient"
    /\ Len(OpLog(k2, "fillRect")) = 1

\* C5: the value a completed call returns is the context it was given.
C5_ReturnsSameContext ==
  \A k \in 1..Len(calls) :
    Completed(k) => calls[k].ret = <<"context", calls[k].ctx>>

C5_Witness ==
  \E k1, k2 \in 1..Len(calls) :
    /\ Completed(k1) /\ Completed(k2)
    /\ calls[k1].ctx = "c1" /\ calls[k1].ret = <<"context", "c1">>
    /\ calls[k2].ctx = "c2" /\ calls[k2].ret = <<"context", "c2">>

C7_FillStyleStaysAfterReturn ==
  [][ /\ (pc = "L11" /\ pc' = "idle") =>
           /\ fillStyle'[ctx] = <<"gradient", gradient>>
           /\ gradient = OpLog(cur, "createLinearGradient")[1].grad
      /\ \A c \in Ctxs :
           fillStyle'[c] # fillStyle[c] =>
             \/ pc = "L9" /\ c = ctx /\ fillStyle'[c] = <<"gradient", gradient>>
             \/ pc = "idle" /\ pc' = "idle" ]_vars

\* the gradient of the first call is still the style of its context after a
\* later call on the other context has completed
C7_Witness ==
  /\ pc = "idle"
  /\ Len(calls) = 2
  /\ Completed(1) /\ Completed(2)
  /\ calls[1].ctx # calls[2].ctx
  /\ fillStyle[calls[1].ctx] = <<"gradient", OpLog(1, "createLinearGradient")[1].grad>>

\* C8: the step in which a context operation raises ends the call with that
\* very exception and no return value, and undoes nothing; a call that has
\* raised performs no further operation and its outcome never changes.
C8_ExceptionsPropagate ==
  [][ /\ (Len(log') = Len(log) + 1 /\ log'[Len(log')].threw # "") =>
           /\ pc' = "idle"
           /\ calls'[cur].kind = "throw"
           /\ calls'[cur].exc = log'[Len(log')].threw
           /\ calls'[cur].ret = Undefined
           /\ Len(calls') = cur
           /\ fillStyle' = fillStyle
           /\ gradients' = gradients
           /\ painted' = painted
           /\ SubSeq(log', 1, Len(log)) = log
      /\ \A k \in 1..Len(calls) :
           Threw(k) =>
             /\ calls'[k] = calls[k]
             /\ CallLog(k)[Len(CallLog(k))].threw = calls[k].exc
             /\ Len(log') > Len(log) => log'[Len(log')].call # k ]_vars

\* fillRect raised E2 after the assignment, another call followed, and the
\* assignment of the failed call is still in place
C8_Witness ==
  /\ Len(calls) = 2
  /\ Threw(1)
  /\ calls[1].exc = "E2"
  /\ Len(OpLog(1, "fillRect")) = 1
  /\ calls[2].ctx # calls[1].ctx
  /\ Completed(2)
  /\ fillStyle[calls[1].ctx] = <<"gradient", OpLog(1, "createLinearGradient")[1].grad>>

\* C9: every call that reaches the assignment assigns the gradient returned
\* by its own single createLinearGradient invocation, no two invocations
\* return the same gradient, and while no call has raised, the k-th call
\* made the k-th invocation, so n completed calls made exactly n.
C9_FreshGradientEveryCall ==
  /\ \A i \in 1..Len(log) :
       log[i].op = "fillStyle=" =>
         LET cr == OpLog(log[i].call, "createLinearGradient")
         IN Len(cr) = 1 /\ cr[1].threw = "" /\ cr[1].grad = log[i].grad
  /\ \A i, j \in 1..Len(Creates) :
       (i # j /\ Creates[i].threw = "" /\ Creates[j].threw = "") =>
         Creates[i].grad # Creates[j].grad
  /\ (\A k \in 1..Len(calls) : ~Threw(k)) =>
       /\ pc \notin {"idle", "L2"} => Len(Creates) = Len(calls)
       /\ pc = "idle" => Len(Creates) = Len(calls)
       /\ \A k \in 1..Len(Creates) : Creates[k].call = k
       /\ \A i \in 1..Len(log) :
            log[i].op = "fillStyle=" => Creates[log[i].call].grad = log[i].grad

C9_Witness ==
  /\ pc = "idle"
  /\ Len(calls) = 2
  /\ Completed(1) /\ Completed(2)
  /\ calls[1].ctx = calls[2].ctx
  /\ Len(Creates) = 2
  /\ fillStyle[calls[2].ctx] = <<"gradient", Creates[2].grad>>

====
